---- MODULE Spec2Model ----
(***************************************************************************)
(* A model of the CoAP packet codec: CoapPacket (the message model),       *)
(* CoapBuilder (structured -> bytes) and CoapParser (bytes -> structured). *)
(* Bytes are integers 0..255, byte buffers are sequences of bytes          *)
(* (1-based here, 0-based in the source), strings are their byte           *)
(* sequences, error codes are the enumerators' names as strings.           *)
(***************************************************************************)
EXTENDS Integers, Sequences, FiniteSets

\* ------------------------------------------------------------ CoapTypes.h

COAP_VERSION == 1

MAX_PAYLOAD_SIZE == 1024

PAYLOAD_MARKER == 255

MAX_OPTION_VALUE_SIZE == 1034

\* enum class CoapType : uint8_t
CON == 0
NON == 1
ACK == 2
RST == 3

\* enum class CoapCode : uint8_t (the enumerators the model uses)
EMPTY == 0
GET == 1
POST == 2
CONTENT_2_05 == 69

\* enum class CoapOptionNumber : uint16_t (the enumerators the model uses)
IF_MATCH == 1
URI_PATH == 11
CONTENT_FORMAT == 12
URI_QUERY == 15
SIZE1 == 60

\* enum class CoapContentFormat : uint16_t (the enumerators the model uses)
TEXT_PLAIN == 0
JSON == 50

\* static_cast<uint8_t>(code) >> 5
getCodeClass(code) == code \div 32

isValidCodeClass(codeClass) == codeClass # 1 /\ codeClass # 6 /\ codeClass # 7

\* ------------------------------------------------------ integer widths

U8(x) == x % 256

U16(x) == x % 65536

\* ---------------------------------------------------------- byte strings

\* A byte string of length n whose bytes differ from place to place and
\* take every value, 0xFF included, when n is large.
Bytes(n, seed) == [i \in 1..n |-> (seed + 7 * i) % 256]

\* The first n elements of s, and s without them.
Take(s, n) == SubSeq(s, 1, n)

Drop(s, n) == SubSeq(s, n + 1, Len(s))

Zeros(n) == [i \in 1..n |-> 0]

\* ----------------------------------------------------------- CoapPacket.h

\* struct CoapOption
CoapOption(num, val) == [number |-> num, value |-> val]

\* CoapPacket::CoapPacket() and CoapPacket::clear() leave the same value.
clear ==
  [version |-> COAP_VERSION, type |-> CON, token_length |-> 0,
   token |-> Zeros(8), code |-> EMPTY, message_id |-> 0,
   options |-> << >>, payload |-> << >>]

\* CoapPacket::setToken(tokenData, length): a length above 8 is clamped to
\* 8, the first `length` bytes are copied and the rest of the array zeroed.
setToken(p, tokenData, length) ==
  LET len == IF length > 8 THEN 8 ELSE length
  IN  [p EXCEPT !.token_length = len,
                !.token = Take(tokenData, len) \o Zeros(8 - len)]

\* ---------------------------------------------------------- CoapBuilder

\* CoapBuilder::encodeUint: minimal big-endian, zero as the empty string.
encodeUint(value) ==
  IF value = 0 THEN << >>
  ELSE IF value <= 255 THEN << U8(value) >>
  ELSE IF value <= 65535 THEN << U8(value \div 256), value % 256 >>
  ELSE IF value <= 16777215
       THEN << U8(value \div 65536), (value \div 256) % 256, value % 256 >>
  ELSE << U8(value \div 16777216), (value \div 65536) % 256,
          (value \div 256) % 256, value % 256 >>

\* CoapBuilder::addOption (all three overloads end in the same emplace_back).
addOption(p, optionNum, value) ==
  [p EXCEPT !.options = Append(@, CoapOption(U16(optionNum), value))]

addOptionUint(p, optionNum, value) == addOption(p, optionNum, encodeUint(value))

\* std::getline(ss, segment, '/') until the stream is exhausted: the
\* segments between the slashes; a trailing slash ends the last segment and
\* yields no further one.
RECURSIVE getlineAll(_, _)
getlineAll(s, cur) ==
  IF s = << >> THEN (IF cur = << >> THEN << >> ELSE << cur >>)
  ELSE IF Head(s) = 47 THEN << cur >> \o getlineAll(Tail(s), << >>)
  ELSE getlineAll(Tail(s), Append(cur, Head(s)))

\* CoapBuilder::addUriPathSegment
addUriPathSegment(p, segment) == addOption(p, URI_PATH, segment)

RECURSIVE addSegments(_, _)
addSegments(p, segs) ==
  IF segs = << >> THEN p
  ELSE addSegments(IF Head(segs) # << >> THEN addUriPathSegment(p, Head(segs))
                   ELSE p,
                   Tail(segs))

\* CoapBuilder::setUriPath
setUriPath(p, path) ==
  IF path = << >> THEN p
  ELSE LET pathCopy == IF Head(path) = 47 THEN Tail(path) ELSE path
       IN  addSegments(p, getlineAll(pathCopy, << >>))

\* CoapBuilder::addUriQuery: key + "=" + value
addUriQuery(p, key, value) == addOption(p, URI_QUERY, key \o << 61 >> \o value)

\* CoapBuilder::setContentFormat
setContentFormat(p, format) == addOptionUint(p, CONTENT_FORMAT, format)

\* validate with the payload limit off by one: MAX_PAYLOAD_SIZE bytes
\* are refused.
validateOffByOne(p) ==
  IF p.token_length > 8 THEN "INVALID_TOKEN_LENGTH"
  ELSE IF ~isValidCodeClass(getCodeClass(p.code)) THEN "INVALID_CODE_CLASS"
  ELSE IF Len(p.payload) >= MAX_PAYLOAD_SIZE THEN "PAYLOAD_TOO_LARGE"
  ELSE IF p.code = EMPTY
          /\ (p.token_length # 0 \/ p.options # << >> \/ p.payload # << >>)
       THEN "INVALID_FORMAT"
  ELSE "OK"

\* CoapBuilder::validate
validate(p) ==
  IF p.token_length > 8 THEN "INVALID_TOKEN_LENGTH"
  ELSE IF ~isValidCodeClass(getCodeClass(p.code)) THEN "INVALID_CODE_CLASS"
  ELSE IF Len(p.payload) > MAX_PAYLOAD_SIZE THEN "PAYLOAD_TOO_LARGE"
  ELSE IF p.code = EMPTY
          /\ (p.token_length # 0 \/ p.options # << >> \/ p.payload # << >>)
       THEN "INVALID_FORMAT"
  ELSE "OK"

\* CoapBuilder::sortOptions: std::sort with the comparator
\* a.number < b.number. std::sort orders the range by the comparator and
\* does not promise the relative order of equivalent elements, so every
\* arrangement of the options that is ascending by number is an outcome.
IsSortedByNumber(opts) ==
  \A i \in 1..(Len(opts) - 1) : ~(opts[i + 1].number < opts[i].number)

Arrangements(n) ==
  {f \in [1..n -> 1..n] : \A i, j \in 1..n : f[i] = f[j] => i = j}

sortOptions(opts) ==
  {s \in {[i \in 1..Len(opts) |-> opts[f[i]]] : f \in Arrangements(Len(opts))} :
     IsSortedByNumber(s)}

\* encodeOptionDeltaLength with the extension bytes in the wrong order:
\* length's before delta's.
encodeOptionDeltaLengthSwapped(delta, length) ==
  LET deltaNibble == IF delta < 13 THEN delta % 16
                     ELSE IF delta < 269 THEN 13 ELSE 14
      deltaExt == IF delta < 13 THEN << >>
                  ELSE IF delta < 269 THEN << U8(delta - 13) >>
                  ELSE << U8(U16(delta - 269) \div 256), U16(delta - 269) % 256 >>
      lengthNibble == IF length < 13 THEN length % 16
                      ELSE IF length < 269 THEN 13 ELSE 14
      lengthExt == IF length < 13 THEN << >>
                   ELSE IF length < 269 THEN << U8(length - 13) >>
                   ELSE << U8(U16(length - 269) \div 256), U16(length - 269) % 256 >>
  IN  << deltaNibble * 16 + lengthNibble >> \o lengthExt \o deltaExt

\* CoapBuilder::encodeOptionDeltaLength: the header byte and the extension
\* bytes, delta's before length's; the result's length is the return value.
encodeOptionDeltaLength(delta, length) ==
  LET deltaNibble == IF delta < 13 THEN delta % 16
                     ELSE IF delta < 269 THEN 13 ELSE 14
      deltaExt == IF delta < 13 THEN << >>
                  ELSE IF delta < 269 THEN << U8(delta - 13) >>
                  ELSE << U8(U16(delta - 269) \div 256), U16(delta - 269) % 256 >>
      lengthNibble == IF length < 13 THEN length % 16
                      ELSE IF length < 269 THEN 13 ELSE 14
      lengthExt == IF length < 13 THEN << >>
                   ELSE IF length < 269 THEN << U8(length - 13) >>
                   ELSE << U8(U16(length - 269) \div 256), U16(length - 269) % 256 >>
  IN  << deltaNibble * 16 + lengthNibble >> \o deltaExt \o lengthExt

\* CoapBuilder::packOptions, the loop from option i on: the bytes appended
\* to `buffer`, or the error of the first option that is too long.
RECURSIVE packOptionsFrom(_, _, _, _)
packOptionsFrom(opts, i, lastOptionNumber, buffer) ==
  IF i > Len(opts) THEN [err |-> "OK", buffer |-> buffer]
  ELSE LET option == opts[i]
           delta == U16(option.number - lastOptionNumber)
           length == U16(Len(option.value))
       IN  IF length > MAX_OPTION_VALUE_SIZE
           THEN [err |-> "OPTION_TOO_LONG", buffer |-> buffer]
           ELSE packOptionsFrom(opts, i + 1, option.number,
                  buffer \o encodeOptionDeltaLength(delta, length)
                         \o (IF length > 0 THEN option.value ELSE << >>))

packOptions(opts) == packOptionsFrom(opts, 1, 0, << >>)

\* CoapBuilder::build(packet), given the arrangement `sorted` that
\* sortOptions leaves: the builder's packet_, lastError_, the caller's
\* packet and the return value.
build(p, sorted, packetOut) ==
  LET err == validate(p)
  IN  IF err # "OK"
      THEN [packet_ |-> p, lastError_ |-> err, packet |-> packetOut, ret |-> err]
      ELSE LET q == [p EXCEPT !.options = sorted]
           IN  [packet_ |-> q, lastError_ |-> "OK", packet |-> q, ret |-> "OK"]

\* headerBytes with the message id low byte first.
headerBytesLittleEndian(p) ==
  << ((COAP_VERSION % 4) * 64 + (p.type % 4) * 16 + (p.token_length % 16)) % 256,
     U8(p.code),
     p.message_id % 256,
     U8(p.message_id \div 256) >>

\* The 4-byte header buildBuffer writes.
headerBytes(p) ==
  << ((COAP_VERSION % 4) * 64 + (p.type % 4) * 16 + (p.token_length % 16)) % 256,
     U8(p.code),
     U8(p.message_id \div 256),
     p.message_id % 256 >>

\* CoapBuilder::buildBuffer(buffer), given the arrangement `sorted` that
\* sortOptions leaves.
buildBuffer(p, sorted, bufferOut) ==
  LET err == validate(p)
  IN  IF err # "OK"
      THEN [packet_ |-> p, lastError_ |-> err, buffer |-> bufferOut, ret |-> err]
      ELSE LET q == [p EXCEPT !.options = sorted]
               b1 == headerBytes(q)
               b2 == IF q.token_length > 0
                     THEN b1 \o Take(q.token, q.token_length) ELSE b1
               packed == IF q.options # << >> THEN packOptions(q.options)
                         ELSE [err |-> "OK", buffer |-> << >>]
           IN  IF packed.err # "OK"
               THEN [packet_ |-> q, lastError_ |-> packed.err, buffer |-> b2,
                     ret |-> packed.err]
               ELSE LET b3 == b2 \o packed.buffer
                        b4 == IF q.payload # << >>
                              THEN b3 \o << PAYLOAD_MARKER >> \o q.payload
                              ELSE b3
                    IN  [packet_ |-> q, lastError_ |-> "OK", buffer |-> b4,
                         ret |-> "OK"]

\* ----------------------------------------------------------- CoapParser

\* buffer[i] of the source, i counted from 0.
At(buffer, i) == buffer[i + 1]

\* The larger of two numbers.
Max(a, b) == IF a >= b THEN a ELSE b

\* decodeOptionDeltaLength asking for one byte where two are read.
decodeOptionDeltaLengthOffByOne(buffer, bufferLen, offset, field) ==
  IF field < 13
  THEN [err |-> "OK", offset |-> offset, result |-> field, top |-> 0]
  ELSE IF field = 13
       THEN IF offset >= bufferLen
            THEN [err |-> "DATAGRAM_TOO_SHORT", offset |-> offset, result |-> 0,
                  top |-> 0]
            ELSE [err |-> "OK", offset |-> offset + 1,
                  result |-> U16(At(buffer, offset) + 13), top |-> offset + 1]
  ELSE IF field = 14
       THEN IF offset + 1 > bufferLen
            THEN [err |-> "DATAGRAM_TOO_SHORT", offset |-> offset, result |-> 0,
                  top |-> 0]
            ELSE [err |-> "OK", offset |-> offset + 2,
                  result |-> U16(At(buffer, offset) * 256
                                 + At(buffer, offset + 1) + 269),
                  top |-> offset + 2]
  ELSE [err |-> "INVALID_FORMAT", offset |-> offset, result |-> 0, top |-> 0]

\* CoapParser::decodeOptionDeltaLength: the error, the offset it leaves, the
\* uint16_t result, and `top`: one more than the highest index of buffer it
\* read (0: it read nothing).
decodeOptionDeltaLength(buffer, bufferLen, offset, field) ==
  IF field < 13
  THEN [err |-> "OK", offset |-> offset, result |-> field, top |-> 0]
  ELSE IF field = 13
       THEN IF offset >= bufferLen
            THEN [err |-> "DATAGRAM_TOO_SHORT", offset |-> offset, result |-> 0,
                  top |-> 0]
            ELSE [err |-> "OK", offset |-> offset + 1,
                  result |-> U16(At(buffer, offset) + 13), top |-> offset + 1]
  ELSE IF field = 14
       THEN IF offset + 1 >= bufferLen
            THEN [err |-> "DATAGRAM_TOO_SHORT", offset |-> offset, result |-> 0,
                  top |-> 0]
            ELSE [err |-> "OK", offset |-> offset + 2,
                  result |-> U16(At(buffer, offset) * 256
                                 + At(buffer, offset + 1) + 269),
                  top |-> offset + 2]
  ELSE [err |-> "INVALID_FORMAT", offset |-> offset, result |-> 0, top |-> 0]

\* CoapParser::parseOptions, the while loop from `offset` on. `options` is
\* the caller's vector, written in place: what was pushed before an error
\* stays in it. `top` is one more than the highest index of buffer read and
\* `offsets` the offset each iteration of the loop began with.
RECURSIVE parseOptionsLoop(_, _, _, _, _)
parseOptionsLoop(buffer, bufferLen, offset, lastOptionNumber, options) ==
  IF ~(offset < bufferLen)
  THEN [err |-> "OK", offset |-> offset, options |-> options,
        hasPayload |-> FALSE, top |-> 0, offsets |-> << >>]
  ELSE
    LET deltaLengthByte == At(buffer, offset)
        Return(err, off, hasPayload, top) ==
          [err |-> err, offset |-> off, options |-> options,
           hasPayload |-> hasPayload, top |-> top, offsets |-> << offset >>]
    IN  IF deltaLengthByte = PAYLOAD_MARKER
        THEN Return("OK", offset + 1, TRUE, offset + 1)
        ELSE
          LET deltaField == (deltaLengthByte \div 16) % 16
              lengthField == deltaLengthByte % 16
              d == decodeOptionDeltaLength(buffer, bufferLen, offset + 1, deltaField)
          IN  IF d.err # "OK"
              THEN Return(d.err, d.offset, FALSE, Max(offset + 1, d.top))
              ELSE
                LET l == decodeOptionDeltaLength(buffer, bufferLen, d.offset,
                                                 lengthField)
                    read == Max(Max(offset + 1, d.top), l.top)
                IN  IF l.err # "OK"
                    THEN Return(l.err, l.offset, FALSE, read)
                    ELSE
                      LET optionNumber == U16(lastOptionNumber + d.result)
                          length == l.result
                      IN  IF l.offset + length > bufferLen
                          THEN Return("DATAGRAM_TOO_SHORT", l.offset, FALSE, read)
                          ELSE IF length > MAX_OPTION_VALUE_SIZE
                          THEN Return("OPTION_TOO_LONG", l.offset, FALSE, read)
                          ELSE
                            LET rest ==
                                  parseOptionsLoop(buffer, bufferLen,
                                    l.offset + length, optionNumber,
                                    Append(options,
                                      CoapOption(optionNumber,
                                        IF length > 0
                                        THEN SubSeq(buffer, l.offset + 1,
                                                    l.offset + length)
                                        ELSE << >>)))
                            IN  [rest EXCEPT
                                   !.top = Max(@, Max(read,
                                             IF length > 0 THEN l.offset + length
                                             ELSE 0)),
                                   !.offsets = << offset >> \o @]

parseOptions(buffer, bufferLen, offset, options) ==
  parseOptionsLoop(buffer, bufferLen, offset, 0, options)

\* parseHeader with the code class checked before the token length.
parseHeaderReordered(buffer, length, packet) ==
  LET p0 == clear
  IN
  IF length < 4
  THEN [ret |-> "DATAGRAM_TOO_SHORT", packet |-> p0, stage |-> "length",
        offset |-> 0, top |-> 0]
  ELSE
  LET versionTypeToken == At(buffer, 0)
      version == (versionTypeToken \div 64) % 4
  IN
  IF version # COAP_VERSION
  THEN [ret |-> "INVALID_VERSION", packet |-> p0, stage |-> "version",
        offset |-> 1, top |-> 1]
  ELSE
  LET p1 == [p0 EXCEPT !.version = version,
                       !.type = (versionTypeToken \div 16) % 4,
                       !.token_length = versionTypeToken % 16,
                       !.code = At(buffer, 1)]
  IN
  IF ~isValidCodeClass(getCodeClass(p1.code))
  THEN [ret |-> "INVALID_CODE_CLASS", packet |-> p1, stage |-> "code",
        offset |-> 2, top |-> 2]
  ELSE IF p1.token_length > 8
  THEN [ret |-> "INVALID_TOKEN_LENGTH", packet |-> p1, stage |-> "token_length",
        offset |-> 2, top |-> 2]
  ELSE
  LET p3 == [p1 EXCEPT !.message_id = At(buffer, 2) * 256 + At(buffer, 3)]
  IN
  IF p3.token_length > 0 /\ 4 + p3.token_length > length
  THEN [ret |-> "DATAGRAM_TOO_SHORT", packet |-> p3, stage |-> "token",
        offset |-> 4, top |-> 4]
  ELSE [ret |-> "OK",
        packet |-> IF p3.token_length > 0
                   THEN [p3 EXCEPT !.token =
                           SubSeq(buffer, 5, 4 + p3.token_length)
                           \o Drop(p3.token, p3.token_length)]
                   ELSE p3,
        stage |-> "header",
        offset |-> 4 + p3.token_length, top |-> 4 + p3.token_length]

\* parseHeader with the token length compared with 8 only after the token
\* bytes were looked for.
parseHeaderTokenBytesFirst(buffer, length, packet) ==
  LET p0 == clear
  IN
  IF length < 4
  THEN [ret |-> "DATAGRAM_TOO_SHORT", packet |-> p0, stage |-> "length",
        offset |-> 0, top |-> 0]
  ELSE
  LET versionTypeToken == At(buffer, 0)
      version == (versionTypeToken \div 64) % 4
  IN
  IF version # COAP_VERSION
  THEN [ret |-> "INVALID_VERSION", packet |-> p0, stage |-> "version",
        offset |-> 1, top |-> 1]
  ELSE
  LET p2 == [p0 EXCEPT !.version = version,
                       !.type = (versionTypeToken \div 16) % 4,
                       !.token_length = versionTypeToken % 16,
                       !.code = At(buffer, 1)]
  IN
  IF ~isValidCodeClass(getCodeClass(p2.code))
  THEN [ret |-> "INVALID_CODE_CLASS", packet |-> p2, stage |-> "code",
        offset |-> 2, top |-> 2]
  ELSE
  LET p3 == [p2 EXCEPT !.message_id = At(buffer, 2) * 256 + At(buffer, 3)]
  IN
  IF p3.token_length > 0 /\ 4 + p3.token_length > length
  THEN [ret |-> "DATAGRAM_TOO_SHORT", packet |-> p3, stage |-> "token",
        offset |-> 4, top |-> 4]
  ELSE IF p3.token_length > 8
  THEN [ret |-> "INVALID_TOKEN_LENGTH", packet |-> p3, stage |-> "token_length",
        offset |-> 4, top |-> 4]
  ELSE [ret |-> "OK",
        packet |-> IF p3.token_length > 0
                   THEN [p3 EXCEPT !.token =
                           SubSeq(buffer, 5, 4 + p3.token_length)
                           \o Drop(p3.token, p3.token_length)]
                   ELSE p3,
        stage |-> "header",
        offset |-> 4 + p3.token_length, top |-> 4 + p3.token_length]

\* parseHeader without packet.clear(): it writes into the caller's packet as
\* it finds it.
parseHeaderNoClear(buffer, length, packet) ==
  LET p0 == packet
  IN
  IF length < 4
  THEN [ret |-> "DATAGRAM_TOO_SHORT", packet |-> p0, stage |-> "length",
        offset |-> 0, top |-> 0]
  ELSE
  LET versionTypeToken == At(buffer, 0)
      version == (versionTypeToken \div 64) % 4
  IN
  IF version # COAP_VERSION
  THEN [ret |-> "INVALID_VERSION", packet |-> p0, stage |-> "version",
        offset |-> 1, top |-> 1]
  ELSE
  LET p1 == [p0 EXCEPT !.version = version,
                       !.type = (versionTypeToken \div 16) % 4,
                       !.token_length = versionTypeToken % 16]
  IN
  IF p1.token_length > 8
  THEN [ret |-> "INVALID_TOKEN_LENGTH", packet |-> p1, stage |-> "token_length",
        offset |-> 1, top |-> 1]
  ELSE
  LET p2 == [p1 EXCEPT !.code = At(buffer, 1)]
  IN
  IF ~isValidCodeClass(getCodeClass(p2.code))
  THEN [ret |-> "INVALID_CODE_CLASS", packet |-> p2, stage |-> "code",
        offset |-> 2, top |-> 2]
  ELSE
  LET p3 == [p2 EXCEPT !.message_id = At(buffer, 2) * 256 + At(buffer, 3)]
  IN
  IF p3.token_length > 0 /\ 4 + p3.token_length > length
  THEN [ret |-> "DATAGRAM_TOO_SHORT", packet |-> p3, stage |-> "token",
        offset |-> 4, top |-> 4]
  ELSE [ret |-> "OK",
        packet |-> IF p3.token_length > 0
                   THEN [p3 EXCEPT !.token =
                           SubSeq(buffer, 5, 4 + p3.token_length)
                           \o Drop(p3.token, p3.token_length)]
                   ELSE p3,
        stage |-> "header",
        offset |-> 4 + p3.token_length, top |-> 4 + p3.token_length]

\* CoapParser::parse, steps 1 to 3: the 4-byte header and the token. The
\* return value ("OK": go on), the caller's packet as written so far, the
\* place of the return statement taken ("stage") and the offset reached.
parseHeader(buffer, length, packet) ==
  LET p0 == clear
  IN
  IF length < 4
  THEN [ret |-> "DATAGRAM_TOO_SHORT", packet |-> p0, stage |-> "length",
        offset |-> 0, top |-> 0]
  ELSE
  LET versionTypeToken == At(buffer, 0)
      version == (versionTypeToken \div 64) % 4
  IN
  IF version # COAP_VERSION
  THEN [ret |-> "INVALID_VERSION", packet |-> p0, stage |-> "version",
        offset |-> 1, top |-> 1]
  ELSE
  LET p1 == [p0 EXCEPT !.version = version,
                       !.type = (versionTypeToken \div 16) % 4,
                       !.token_length = versionTypeToken % 16]
  IN
  IF p1.token_length > 8
  THEN [ret |-> "INVALID_TOKEN_LENGTH", packet |-> p1, stage |-> "token_length",
        offset |-> 1, top |-> 1]
  ELSE
  LET p2 == [p1 EXCEPT !.code = At(buffer, 1)]
  IN
  IF ~isValidCodeClass(getCodeClass(p2.code))
  THEN [ret |-> "INVALID_CODE_CLASS", packet |-> p2, stage |-> "code",
        offset |-> 2, top |-> 2]
  ELSE
  LET p3 == [p2 EXCEPT !.message_id = At(buffer, 2) * 256 + At(buffer, 3)]
  IN
  IF p3.token_length > 0 /\ 4 + p3.token_length > length
  THEN [ret |-> "DATAGRAM_TOO_SHORT", packet |-> p3, stage |-> "token",
        offset |-> 4, top |-> 4]
  ELSE [ret |-> "OK",
        packet |-> IF p3.token_length > 0
                   THEN [p3 EXCEPT !.token =
                           SubSeq(buffer, 5, 4 + p3.token_length)
                           \o Drop(p3.token, p3.token_length)]
                   ELSE p3,
        stage |-> "header",
        offset |-> 4 + p3.token_length, top |-> 4 + p3.token_length]

\* CoapParser::parse(buffer, length, packet): the return value, the caller's
\* packet as the call leaves it, the place of the return statement taken
\* ("stage": length, version, token_length, code, token, options, marker,
\* payload, done), the offset reached, one more than the highest index of
\* buffer read ("top") and the offsets the iterations of parseOptions began
\* with.
parse(buffer, length, packet) ==
  LET h == parseHeader(buffer, length, packet)
  IN
  IF h.ret # "OK"
  THEN [ret |-> h.ret, packet |-> h.packet, stage |-> h.stage,
        offset |-> h.offset, top |-> h.top, offsets |-> << >>]
  ELSE
  LET o == IF h.offset < length
           THEN parseOptions(buffer, length, h.offset, h.packet.options)
           ELSE [err |-> "OK", offset |-> h.offset, options |-> h.packet.options,
                 hasPayload |-> FALSE, top |-> 0, offsets |-> << >>]
      p5 == [h.packet EXCEPT !.options = o.options]
      Return(ret, pkt, stage, top) ==
        [ret |-> ret, packet |-> pkt, stage |-> stage, offset |-> o.offset,
         top |-> top, offsets |-> o.offsets]
      read == Max(h.top, o.top)
  IN
  IF o.err # "OK"
  THEN Return(o.err, p5, "options", read)
  ELSE IF o.hasPayload /\ o.offset >= length
  THEN Return("INVALID_FORMAT", p5, "marker", read)
  ELSE IF o.hasPayload /\ length - o.offset > MAX_PAYLOAD_SIZE
  THEN Return("PAYLOAD_TOO_LARGE", p5, "payload", read)
  ELSE IF o.hasPayload
  THEN Return("OK", [p5 EXCEPT !.payload = SubSeq(buffer, o.offset + 1, length)],
              "done", Max(read, length))
  ELSE Return("OK", p5, "done", read)

\* ------------------------------------------------------------------ state

VARIABLES
  packet_,     \* CoapBuilder::packet_
  lastError_,  \* CoapBuilder::lastError_
  packet,      \* the caller's CoapPacket, handed to build and to parse
  buffer,      \* the caller's byte vector, handed to buildBuffer and to parse
  ret,         \* the value the latest build, buildBuffer or parse returned
  op,          \* the latest operation
  stage,       \* the return statement the latest parse took
  tokenGiven,  \* the length argument of the latest setToken (0: none yet)
  added,       \* the options in the order the builder was given them
  before,      \* packet_, packet and buffer as the latest build, buildBuffer
               \* or parse found them
  calls,       \* the number of calls made
  received,    \* the number of datagrams received
  parsed,      \* the latest parse: the length it was given, the offset it
               \* reached, one more than the highest index it read and the
               \* offsets its option loop went through
  codec        \* a delta and a length, their encoding and what decodes from it

vars == << packet_, lastError_, packet, buffer, ret, op, stage, tokenGiven,
           added, before, calls, received, parsed, codec >>

\* ----------------------------------------------------------------- bounds

\* Calls in one behaviour.
MaxCalls == 4

\* Options a builder holds.
MaxOptions == 3

\* Datagrams received in one behaviour.
MaxDatagrams == 1

\* ----------------------------------------------------------------- inputs

Types == {ACK}

\* 32 is class 1, detail 0: a reserved class.
Codes == {GET, CONTENT_2_05, 32}

MessageIds == {1234}

\* A 2-byte token (examples/basic_usage.cpp), and 9 bytes: one too many.
Tokens == {<< 18, 52 >>, Bytes(9, 1)}

Payloads == {Bytes(1, 2), Bytes(MAX_PAYLOAD_SIZE, 3), Bytes(MAX_PAYLOAD_SIZE + 1, 3)}

\* Option numbers and values whose deltas and lengths fall on both sides of
\* the nibble rule's thresholds 13 and 269 and of MAX_OPTION_VALUE_SIZE.
RawOptions ==
  { CoapOption(IF_MATCH, Bytes(12, 4)),
    CoapOption(URI_PATH, Bytes(13, 5)),
    CoapOption(SIZE1, Bytes(268, 6)),
    CoapOption(1000, Bytes(269, 7)),
    CoapOption(URI_QUERY, Bytes(MAX_OPTION_VALUE_SIZE, 8)),
    CoapOption(URI_PATH, Bytes(MAX_OPTION_VALUE_SIZE + 1, 9)) }

\* "/sensors/temp"
Paths == { << 47, 115, 101, 110, 115, 111, 114, 115, 47, 116, 101, 109, 112 >> }

\* ("start", "0")
Queries == { << << 115, 116, 97, 114, 116 >>, << 48 >> >> }

Formats == {TEXT_PLAIN, JSON}

\* A 4-byte header with message id 0x47CD.
Hdr(b0, b1) == << b0, b1, 71, 205 >>

\* "Hello World"
HelloWorld == << 72, 101, 108, 108, 111, 32, 87, 111, 114, 108, 100 >>

\* Well-formed beginnings of a datagram, each with the options it encodes:
\* a header alone (0x50: version 1, NON, no token; code GET), a header and a
\* 2-byte token, a header and the option URI_PATH "temp" (0xB4: delta 11,
\* length 4), and a header whose code is EMPTY.
Prefixes ==
  { [bytes |-> Hdr(80, GET), options |-> << >>],
    [bytes |-> Hdr(82, GET) \o << 18, 52 >>, options |-> << >>],
    [bytes |-> Hdr(64, CONTENT_2_05) \o << 180, 116, 101, 109, 112 >>,
     options |-> << CoapOption(URI_PATH, << 116, 101, 109, 112 >>) >>],
    [bytes |-> Hdr(64, EMPTY), options |-> << >>] }

\* What follows a payload marker: nothing, one byte, "Hello World",
\* MAX_PAYLOAD_SIZE bytes and one more.
Rests ==
  { << >>, << 72 >>, HelloWorld, Bytes(MAX_PAYLOAD_SIZE, 3),
    Bytes(MAX_PAYLOAD_SIZE + 1, 3) }

\* A prefix, the marker 0xFF and a rest; examples/basic_usage.cpp's test_
\* is one of them.
MarkerDatagrams ==
  { p.bytes \o << PAYLOAD_MARKER >> \o r : p \in Prefixes, r \in Rests }

\* Option header bytes with exactly one nibble equal to 15: 0xF0, 0xF3,
\* 0x0F, 0x1F, 0xDF, 0xEF.
HalfMarkers == {240, 243, 15, 31, 223, 239}

HalfMarkerDatagrams ==
  { p.bytes \o << x >> \o r :
      p \in Prefixes, x \in HalfMarkers, r \in {<< >>, << 1 >>, << 1, 2, 3 >>} }

\* An option header 0x1E (delta 1, length nibble 14) whose two extension
\* bytes 0x02 0xFE give the length 269 + 766 = 1035, followed by r bytes.
OverlongLength == MAX_OPTION_VALUE_SIZE + 1

OverlongDatagrams ==
  { p.bytes \o << 30, 2, 254 >> \o Bytes(r, 1) :
      p \in Prefixes,
      r \in {0, OverlongLength - 1, OverlongLength, OverlongLength + 1} }

\* First bytes: 0x40 (version 1, CON, token length 0), 0x52 (NON, 2), 0x68
\* (ACK, 8), 0x49 (9), 0x4F (15), 0x09 (version 0, 9), 0xC2 (version 3, 2).
FirstBytes == {64, 82, 104, 73, 79, 9, 194}

\* Code bytes: EMPTY, GET, and the classes 1, 6 and 7.
CodeBytes == {EMPTY, GET, 32, 192, 255}

HeaderDatagrams ==
  { Take(Hdr(b0, b1), n) : b0 \in FirstBytes, b1 \in CodeBytes, n \in 0..3 }
  \cup { Hdr(b0, b1) \o t :
           b0 \in FirstBytes, b1 \in CodeBytes,
           t \in { Bytes(n, 0) : n \in {0, 1, 2, 7, 8, 9} }
                 \cup { Zeros(n) : n \in {1, 2, 3, 8, 9} } }

\* The datagrams the transport hands to the parser's caller.
ProbeDatagrams ==
  HeaderDatagrams \cup MarkerDatagrams \cup HalfMarkerDatagrams
  \cup OverlongDatagrams

\* examples/basic_usage.cpp's test_.
ExampleDatagrams == { Hdr(80, GET) \o << PAYLOAD_MARKER >> \o HelloWorld }

\* Datagrams with one-byte and two-byte extensions of the delta and of the
\* length, option values, a token and a payload, each with the lengths
\* ("cuts") at which it ends inside an extension or inside an option value.
\* 0xD2 0x01: delta 14, length 2. 0xE1 0x00 0x00: delta 269, length 1.
\* 0x1D 0x01: delta 1, length 14. 0x0E 0x00 0x00: delta 0, length 269.
\* 0xEE 0x00 0x01 0x00 0x02: delta 270, length 271. 0xDD 0x00 0x00: delta
\* 13, length 13. The values of 269 and 271 bytes are never complete.
MemoryDatagrams ==
  { [bytes |-> Hdr(64, GET) \o << 210, 1, 7, 8 >> \o << 225, 0, 0, 9 >>
                 \o << PAYLOAD_MARKER, 1 >>,
     cuts |-> {5, 6, 7, 9, 10, 11}],
    [bytes |-> Hdr(66, GET) \o << 18, 52 >> \o << 29, 1 >> \o Bytes(14, 1)
                 \o << 14, 0, 0 >> \o Bytes(3, 2),
     cuts |-> (7..21) \cup (23..28)],
    [bytes |-> Hdr(64, CONTENT_2_05) \o << 238, 0, 1, 0, 2 >> \o Bytes(4, 3),
     cuts |-> 5..13],
    [bytes |-> Hdr(64, GET) \o << 221, 0, 0 >> \o Bytes(13, 4) \o << 1, 5 >>,
     cuts |-> (5..19) \cup {21}] }

\* What the memory after the caller's buffer may hold.
Beyond == { << 0, 0, 0 >>, << PAYLOAD_MARKER, PAYLOAD_MARKER, PAYLOAD_MARKER >>,
            << 238, 1, 2 >> }

\* Datagrams of options with empty values, each with the deltas its option
\* headers encode: a nibble below 13, 13 + one extension byte, 269 + two
\* extension bytes (0xFEF2 gives 65535, 0xFFFF gives 65804).
NumberDatagrams ==
  { [bytes |-> Hdr(64, GET) \o << 176 >>, deltas |-> << 11 >>],
    [bytes |-> Hdr(64, GET) \o << 176, 0 >>, deltas |-> << 11, 0 >>],
    [bytes |-> Hdr(64, GET) \o << 177, 5, 16 >>, deltas |-> << 11, 1 >>],
    [bytes |-> Hdr(64, GET) \o << 208, 0 >>, deltas |-> << 13 >>],
    [bytes |-> Hdr(64, GET) \o << 208, 255 >>, deltas |-> << 268 >>],
    [bytes |-> Hdr(64, GET) \o << 208, 255, 208, 255 >>, deltas |-> << 268, 268 >>],
    [bytes |-> Hdr(64, GET) \o << 224, 0, 0 >>, deltas |-> << 269 >>],
    [bytes |-> Hdr(64, GET) \o << 192, 48, PAYLOAD_MARKER, 1 >>,
     deltas |-> << 12, 3 >>],
    [bytes |-> Hdr(64, GET) \o << 224, 254, 242 >>, deltas |-> << 65535 >>],
    [bytes |-> Hdr(64, GET) \o << 224, 254, 242, 0 >>, deltas |-> << 65535, 0 >>],
    [bytes |-> Hdr(64, GET) \o << 224, 254, 242, 16 >>, deltas |-> << 65535, 1 >>],
    [bytes |-> Hdr(64, GET) \o << 224, 254, 243 >>, deltas |-> << 65536 >>],
    [bytes |-> Hdr(64, GET) \o << 224, 255, 255 >>, deltas |-> << 65804 >>],
    [bytes |-> Hdr(64, GET) \o << 224, 127, 255, 224, 127, 255 >>,
     deltas |-> << 33036, 33036 >>] }

\* Deltas and lengths handed to the option header codec: the ends of the
\* three encodings, the largest option value, the largest uint16_t and the
\* largest value two extension bytes can carry, 269 + 65535.
CodecValues == {0, 12, 13, 268, 269, MAX_OPTION_VALUE_SIZE, 65535, 65804}

\* ------------------------------------------------------------------- Init

\* No parse yet.
NotParsed == [length |-> 0, offset |-> 0, top |-> 0, offsets |-> << >>]

\* A delta and a length handed to the option header codec, nothing encoded
\* yet.
Given(delta, length) ==
  [step |-> "given", delta |-> delta, length |-> length, bytes |-> << >>,
   err |-> "OK", deltaOut |-> 0, lengthOut |-> 0, offset |-> 0]

\* CoapBuilder::CoapBuilder(), a default-constructed CoapPacket and an empty
\* vector on the caller's side.
Start ==
  /\ packet_ = clear
  /\ lastError_ = "OK"
  /\ packet = clear
  /\ buffer = << >>
  /\ ret = "OK"
  /\ op = "init"
  /\ stage = "none"
  /\ tokenGiven = 0
  /\ added = << >>
  /\ before = [packet_ |-> clear, packet |-> clear, buffer |-> << >>]
  /\ calls = 0
  /\ received = 0
  /\ parsed = NotParsed

Init == Start /\ codec = Given(0, 0)

\* The codec alone: any delta and any length of CodecValues.
InitCodec ==
  /\ Start
  /\ \E delta \in CodecValues, length \in CodecValues :
       codec = Given(delta, length)

\* ---------------------------------------------------------------- actions

\* A setter: the builder's packet_ becomes q; nothing is returned but *this.
Setter(name, q) ==
  /\ calls < MaxCalls
  /\ Len(q.options) <= MaxOptions
  /\ packet_' = q
  /\ added' = added \o SubSeq(q.options, Len(packet_.options) + 1, Len(q.options))
  /\ op' = "set"
  /\ calls' = calls + 1
  /\ UNCHANGED << lastError_, packet, buffer, ret, stage, before, received,
                  parsed, codec >>

SetType ==
  \E t \in Types :
    /\ Setter("setType", [packet_ EXCEPT !.type = t])
    /\ UNCHANGED tokenGiven

SetCode ==
  \E c \in Codes :
    /\ Setter("setCode", [packet_ EXCEPT !.code = c])
    /\ UNCHANGED tokenGiven

SetMessageId ==
  \E id \in MessageIds :
    /\ Setter("setMessageId", [packet_ EXCEPT !.message_id = id])
    /\ UNCHANGED tokenGiven

SetToken ==
  \E t \in Tokens :
    /\ Setter("setToken", setToken(packet_, t, Len(t)))
    /\ tokenGiven' = Len(t)

AddOption ==
  \E o \in RawOptions :
    /\ Setter("addOption", addOption(packet_, o.number, o.value))
    /\ UNCHANGED tokenGiven

SetUriPath ==
  \E path \in Paths :
    /\ Setter("setUriPath", setUriPath(packet_, path))
    /\ UNCHANGED tokenGiven

AddUriQuery ==
  \E q \in Queries :
    /\ Setter("addUriQuery", addUriQuery(packet_, q[1], q[2]))
    /\ UNCHANGED tokenGiven

SetContentFormat ==
  \E f \in Formats :
    /\ Setter("setContentFormat", setContentFormat(packet_, f))
    /\ UNCHANGED tokenGiven

SetPayload ==
  \E d \in Payloads :
    /\ Setter("setPayload", [packet_ EXCEPT !.payload = d])
    /\ UNCHANGED tokenGiven

Build ==
  /\ calls < MaxCalls
  /\ \E sorted \in sortOptions(packet_.options) :
       LET r == build(packet_, sorted, packet)
       IN  /\ packet_' = r.packet_
           /\ lastError_' = r.lastError_
           /\ packet' = r.packet
           /\ ret' = r.ret
  /\ before' = [packet_ |-> packet_, packet |-> packet, buffer |-> buffer]
  /\ op' = "build"
  /\ calls' = calls + 1
  /\ UNCHANGED << buffer, stage, tokenGiven, added, received, parsed, codec >>

BuildBuffer ==
  /\ calls < MaxCalls
  /\ \E sorted \in sortOptions(packet_.options) :
       LET r == buildBuffer(packet_, sorted, buffer)
       IN  /\ packet_' = r.packet_
           /\ lastError_' = r.lastError_
           /\ buffer' = r.buffer
           /\ ret' = r.ret
  /\ before' = [packet_ |-> packet_, packet |-> packet, buffer |-> buffer]
  /\ op' = "buildBuffer"
  /\ calls' = calls + 1
  /\ UNCHANGED << packet, stage, tokenGiven, added, received, parsed, codec >>

\* reset without lastError_ = CoapError::OK.
ResetKeepsLastError ==
  /\ calls < MaxCalls
  /\ packet_' = clear
  /\ tokenGiven' = 0
  /\ added' = << >>
  /\ op' = "reset"
  /\ calls' = calls + 1
  /\ UNCHANGED << lastError_, packet, buffer, ret, stage, before, received,
                  parsed, codec >>

\* CoapBuilder::reset
Reset ==
  /\ calls < MaxCalls
  /\ packet_' = clear
  /\ lastError_' = "OK"
  /\ tokenGiven' = 0
  /\ added' = << >>
  /\ op' = "reset"
  /\ calls' = calls + 1
  /\ UNCHANGED << packet, buffer, ret, stage, before, received, parsed, codec >>

\* CoapParser::parse(buffer, packet), the vector overload: the length is the
\* vector's size.
Parse ==
  /\ calls < MaxCalls
  /\ LET r == parse(buffer, Len(buffer), packet)
     IN  /\ packet' = r.packet
         /\ ret' = r.ret
         /\ stage' = r.stage
         /\ parsed' = [length |-> Len(buffer), offset |-> r.offset,
                       top |-> r.top, offsets |-> r.offsets]
  /\ before' = [packet_ |-> packet_, packet |-> packet, buffer |-> buffer]
  /\ op' = "parse"
  /\ calls' = calls + 1
  /\ UNCHANGED << packet_, lastError_, buffer, tokenGiven, added, received, codec >>

\* The caller's vector is filled with a datagram from the transport.
ReceiveFrom(datagrams) ==
  /\ calls < MaxCalls
  /\ received < MaxDatagrams
  /\ \E d \in datagrams : buffer' = d
  /\ op' = "receive"
  /\ calls' = calls + 1
  /\ received' = received + 1
  /\ UNCHANGED << packet_, lastError_, packet, ret, stage, tokenGiven, added,
                  before, parsed, codec >>

Receive == ReceiveFrom(ExampleDatagrams)

ReceiveNumbers == ReceiveFrom({m.bytes : m \in NumberDatagrams})

ReceiveMemory == ReceiveFrom({m.bytes : m \in MemoryDatagrams})

\* CoapParser::parse(buffer, length, packet), the pointer overload, with any
\* length up to the size of the caller's buffer; what follows the buffer in
\* memory is not the caller's to choose.
ParseBytes ==
  /\ calls < MaxCalls
  /\ \E length \in 0..Len(buffer), beyond \in Beyond :
       LET r == parse(buffer \o beyond, length, packet)
       IN  /\ packet' = r.packet
           /\ ret' = r.ret
           /\ stage' = r.stage
           /\ parsed' = [length |-> length, offset |-> r.offset,
                         top |-> r.top, offsets |-> r.offsets]
  /\ before' = [packet_ |-> packet_, packet |-> packet, buffer |-> buffer]
  /\ op' = "parseBytes"
  /\ calls' = calls + 1
  /\ UNCHANGED << packet_, lastError_, buffer, tokenGiven, added, received, codec >>

ReceiveMarker == ReceiveFrom(MarkerDatagrams)

ReceiveProbe == ReceiveFrom(ProbeDatagrams)

\* The builder of examples/basic_usage.cpp's Example 1 as its setters leave
\* it: setType(CON).setCode(GET).setMessageId(1234).setToken(token1, 2)
\* .setUriPath("/sensors/temp"), applied to the builder p.
example1(p, path) ==
  setUriPath(setToken([p EXCEPT !.type = CON, !.code = GET, !.message_id = 1234],
                      << 18, 52 >>, 2),
             path)

\* Example 1: the statement that chains the five setters and buildBuffer.
Example1 ==
  /\ calls < MaxCalls
  /\ \E path \in Paths :
       LET q == example1(packet_, path)
       IN  /\ Len(q.options) <= MaxOptions
           /\ added' = added \o SubSeq(q.options, Len(packet_.options) + 1,
                                        Len(q.options))
           /\ before' = [packet_ |-> q, packet |-> packet, buffer |-> buffer]
           /\ \E sorted \in sortOptions(q.options) :
                LET r == buildBuffer(q, sorted, buffer)
                IN  /\ packet_' = r.packet_
                    /\ lastError_' = r.lastError_
                    /\ buffer' = r.buffer
                    /\ ret' = r.ret
  /\ tokenGiven' = 2
  /\ op' = "buildBuffer"
  /\ calls' = calls + 1
  /\ UNCHANGED << packet, stage, received, parsed, codec >>

\* CoapBuilder::encodeOptionDeltaLength(buffer, delta, length): the
\* arguments are converted to the uint16_t parameters.
Encode ==
  /\ codec.step = "given"
  /\ codec' = [codec EXCEPT
                 !.step = "encoded",
                 !.bytes = encodeOptionDeltaLength(U16(codec.delta),
                                                   U16(codec.length))]
  /\ UNCHANGED << packet_, lastError_, packet, buffer, ret, op, stage,
                  tokenGiven, added, before, calls, received, parsed >>

\* CoapParser::parseOptions on the encoded header: the two nibbles, then
\* decodeOptionDeltaLength for the delta and for the length.
Decode ==
  /\ codec.step = "encoded"
  /\ LET bytes == codec.bytes
         deltaLengthByte == At(bytes, 0)
         deltaField == (deltaLengthByte \div 16) % 16
         lengthField == deltaLengthByte % 16
         d == decodeOptionDeltaLength(bytes, Len(bytes), 1, deltaField)
         l == decodeOptionDeltaLength(bytes, Len(bytes), d.offset, lengthField)
     IN  codec' = [codec EXCEPT
                     !.step = "decoded",
                     !.err = IF d.err # "OK" THEN d.err ELSE l.err,
                     !.deltaOut = d.result,
                     !.lengthOut = l.result,
                     !.offset = l.offset]
  /\ UNCHANGED << packet_, lastError_, packet, buffer, ret, op, stage,
                  tokenGiven, added, before, calls, received, parsed >>

Next ==
  \/ SetType
  \/ SetCode
  \/ SetMessageId
  \/ SetToken
  \/ AddOption
  \/ SetUriPath
  \/ AddUriQuery
  \/ SetContentFormat
  \/ SetPayload
  \/ Build
  \/ BuildBuffer
  \/ Reset
  \/ Receive
  \/ Parse

Spec == Init /\ [][Next]_vars

\* The parser alone: datagrams arrive and are parsed.
NextParser ==
  \/ ReceiveProbe
  \/ Parse

SpecParser == Init /\ [][NextParser]_vars

\* The builder's setters and buildBuffer alone.
NextWire ==
  \/ SetType
  \/ SetCode
  \/ SetMessageId
  \/ SetToken
  \/ AddOption
  \/ SetUriPath
  \/ AddUriQuery
  \/ SetContentFormat
  \/ SetPayload
  \/ BuildBuffer

SpecWire == Init /\ [][NextWire]_vars

\* Payloads on both sides: set on the builder and built, received and parsed.
NextPayload ==
  \/ SetCode
  \/ SetPayload
  \/ Build
  \/ BuildBuffer
  \/ ReceiveMarker
  \/ Parse

SpecPayload == Init /\ [][NextPayload]_vars

\* examples/basic_usage.cpp: Example 1's statement, further setters on the
\* builder, the datagram of Example 2, parse and reset.
NextExample ==
  \/ Example1
  \/ SetContentFormat
  \/ SetPayload
  \/ BuildBuffer
  \/ Reset
  \/ Receive
  \/ Parse

SpecExample == Init /\ [][NextExample]_vars

\* A builder that is configured, built from and reset.
NextReset ==
  \/ SetCode
  \/ SetToken
  \/ AddOption
  \/ SetPayload
  \/ Build
  \/ BuildBuffer
  \/ Reset

SpecReset == Init /\ [][NextReset]_vars

\* The parser on a caller's memory: a datagram arrives and any number of its
\* bytes is parsed.
NextMemory ==
  \/ ReceiveMemory
  \/ ParseBytes

SpecMemory == Init /\ [][NextMemory]_vars

\* The parser on datagrams of options: a datagram arrives and is parsed.
NextNumbers ==
  \/ ReceiveNumbers
  \/ Parse

SpecNumbers == Init /\ [][NextNumbers]_vars

\* The option header codec: a delta and a length are encoded, then decoded.
NextCodec ==
  \/ Encode
  \/ Decode

SpecCodec == InitCodec /\ [][NextCodec]_vars

\* ------------------------------------------------------------- properties

\* The data-model invariants of a message.
Valid(m) ==
  /\ m.token_length \in 0..8
  /\ getCodeClass(m.code) \notin {1, 6, 7}
  /\ Len(m.payload) <= 1024
  /\ \A i \in 1..Len(m.options) : Len(m.options[i].value) <= 1034
  /\ m.code = 0 => m.token_length = 0 /\ m.options = << >> /\ m.payload = << >>

\* The options with the number n, in the order they have in opts.
WithNumber(opts, n) ==
  LET Is(o) == o.number = n IN SelectSeq(opts, Is)

Numbers(opts) == {opts[i].number : i \in 1..Len(opts)}

\* opts sorted ascending by number, ties in the order they have in opts.
RECURSIVE StableSorted(_)
StableSorted(opts) ==
  IF opts = << >> THEN << >>
  ELSE LET least == CHOOSE n \in Numbers(opts) : \A k \in Numbers(opts) : n <= k
           Others(o) == o.number # least
       IN  WithNumber(opts, least) \o StableSorted(SelectSeq(opts, Others))

\* s and t hold the same options, each as many times.
SameOptions(s, t) ==
  /\ Len(s) = Len(t)
  /\ \A o \in {s[i] : i \in 1..Len(s)} :
       Cardinality({i \in 1..Len(s) : s[i] = o})
         = Cardinality({i \in 1..Len(t) : t[i] = o})

\* The nibble and the extension bytes of a delta or a length.
Nibble(v) == IF v < 13 THEN v ELSE IF v < 269 THEN 13 ELSE 14

Extension(v) ==
  IF v < 13 THEN << >>
  ELSE IF v < 269 THEN << v - 13 >>
  ELSE << (v - 269) \div 256, (v - 269) % 256 >>

\* The wire form of options that are in ascending order of number.
RECURSIVE OptionsWire(_, _)
OptionsWire(opts, previousNumber) ==
  IF opts = << >> THEN << >>
  ELSE LET o == Head(opts)
           delta == o.number - previousNumber
       IN  << Nibble(delta) * 16 + Nibble(Len(o.value)) >>
           \o Extension(delta) \o Extension(Len(o.value)) \o o.value
           \o OptionsWire(Tail(opts), o.number)

BuildOps == {"build", "buildBuffer"}

\* C1: for every builder state that satisfies the data-model invariants,
\* parsing the bytes buildBuffer produced returns OK and a packet whose
\* version, type, code, message id, token length, token and payload are the
\* builder's and whose options are the builder's sorted ascending by number,
\* ties in insertion order.
C1_RoundTrip ==
  (op = "buildBuffer" /\ Valid(before.packet_)) =>
    LET m == before.packet_
        r == parse(buffer, Len(buffer), clear)
    IN  /\ ret = "OK"
        /\ r.ret = "OK"
        /\ r.packet.version = m.version
        /\ r.packet.type = m.type
        /\ r.packet.code = m.code
        /\ r.packet.message_id = m.message_id
        /\ r.packet.token_length = m.token_length
        /\ Take(r.packet.token, m.token_length) = Take(m.token, m.token_length)
        /\ r.packet.payload = m.payload
        /\ r.packet.options = StableSorted(m.options)

\* C2: for every builder state that satisfies the data-model invariants,
\* buildBuffer succeeds, leaves the options in ascending order of number and
\* everything else as it was, and the buffer is byte 0 = (1<<6) | (type<<4)
\* | token length, byte 1 = code, bytes 2-3 = message id big-endian, the
\* token, each option's delta/length header and value, and the marker 0xFF
\* with the payload if and only if the payload is not empty.
C2_WireLayout ==
  (op = "buildBuffer" /\ Valid(before.packet_)) =>
    LET m == packet_
        n == Len(buffer)
        tail == Drop(buffer, 4 + m.token_length)
        wire == OptionsWire(m.options, 0)
    IN  /\ ret = "OK"
        /\ [m EXCEPT !.options = << >>] = [before.packet_ EXCEPT !.options = << >>]
        /\ SameOptions(m.options, before.packet_.options)
        /\ IsSortedByNumber(m.options)
        /\ n >= 4 + m.token_length
        /\ buffer[1] = 64 + m.type * 16 + m.token_length
        /\ buffer[2] = m.code
        /\ buffer[3] * 256 + buffer[4] = m.message_id
        /\ SubSeq(buffer, 5, 4 + m.token_length) = Take(m.token, m.token_length)
        /\ Take(tail, Len(wire)) = wire
        /\ IF m.payload = << >>
           THEN Len(tail) = Len(wire)
           ELSE Drop(tail, Len(wire)) = << 255 >> \o m.payload

\* C2's case: a buffer built from two options or more and a payload.
C2_Witness ==
  /\ op = "buildBuffer"
  /\ ret = "OK"
  /\ Len(packet_.options) >= 2
  /\ packet_.payload # << >>
  /\ buffer # << >>

\* The five header checks of parse, on the latest datagram.
TooShortForHeader == Len(buffer) < 4

BadVersion == buffer[1] \div 64 # 1

BadTokenLength == buffer[1] % 16 > 8

BadCodeClass == buffer[2] \div 32 \in {1, 6, 7}

TooShortForToken == Len(buffer) - 4 < buffer[1] % 16

HeaderStages == {"length", "version", "token_length", "code", "token"}

\* C3: parse returns the error of the first header check that fails, in the
\* order length < 4, version, token length, code class, token bytes, and
\* returns at none of the header checks when all five pass.
C3_HeaderOrder ==
  op = "parse" =>
    IF TooShortForHeader THEN ret = "DATAGRAM_TOO_SHORT" /\ stage = "length"
    ELSE IF BadVersion THEN ret = "INVALID_VERSION"
    ELSE IF BadTokenLength THEN ret = "INVALID_TOKEN_LENGTH"
    ELSE IF BadCodeClass THEN ret = "INVALID_CODE_CLASS"
    ELSE IF TooShortForToken THEN ret = "DATAGRAM_TOO_SHORT" /\ stage = "token"
    ELSE /\ ret \notin {"INVALID_VERSION", "INVALID_TOKEN_LENGTH",
                        "INVALID_CODE_CLASS"}
         /\ stage \notin HeaderStages

\* C3's case: a datagram that fails the token length check, the code class
\* check and the token bytes check at once.
C3_Witness ==
  /\ op = "parse"
  /\ ~TooShortForHeader
  /\ ~BadVersion
  /\ BadTokenLength
  /\ BadCodeClass
  /\ TooShortForToken
  /\ ret = "INVALID_TOKEN_LENGTH"

\* The latest datagram begins with the prefix p and the byte x.
BeginsWith(p, x) ==
  /\ Len(buffer) > Len(p.bytes)
  /\ Take(buffer, Len(p.bytes) + 1) = p.bytes \o << x >>

\* The bytes of the latest datagram after the prefix p and one more byte.
After(p) == Drop(buffer, Len(p.bytes) + 1)

\* C4: when the byte where an option header is expected is 0xFF, parse
\* returns INVALID_FORMAT if nothing follows it and otherwise (up to 1024
\* bytes) the payload is the bytes after it and the options are those
\* decoded before it; a byte with exactly one nibble equal to 15 yields
\* INVALID_FORMAT and no payload.
C4_PayloadMarker ==
  op = "parse" =>
    \A p \in Prefixes :
      /\ BeginsWith(p, 255) =>
           /\ After(p) = << >> => ret = "INVALID_FORMAT"
           /\ Len(After(p)) \in 1..1024 =>
                /\ ret = "OK"
                /\ packet.payload = After(p)
                /\ packet.options = p.options
      /\ \A x \in HalfMarkers :
           BeginsWith(p, x) => ret = "INVALID_FORMAT" /\ packet.payload = << >>

\* C5: an option whose length field decodes to more than 1034 makes parse
\* return OPTION_TOO_LONG, whatever number of bytes follow the field.
C5_OptionTooLong ==
  (op = "parse" /\ buffer \in OverlongDatagrams) => ret = "OPTION_TOO_LONG"

\* C6: build and buildBuffer return PAYLOAD_TOO_LARGE when the builder's
\* payload is longer than 1024 bytes and the code class is valid, and accept
\* 1024 bytes; parse returns PAYLOAD_TOO_LARGE when more than 1024 bytes
\* follow the payload marker, and accepts 1024.
C6_PayloadLimit ==
  /\ (op \in BuildOps /\ getCodeClass(before.packet_.code) \notin {1, 6, 7}) =>
       /\ Len(before.packet_.payload) > 1024 => ret = "PAYLOAD_TOO_LARGE"
       /\ Len(before.packet_.payload) <= 1024 => ret # "PAYLOAD_TOO_LARGE"
       /\ (Len(before.packet_.payload) = 1024 /\ Valid(before.packet_)) =>
            /\ ret = "OK"
            /\ op = "build" => packet.payload = before.packet_.payload
            /\ op = "buildBuffer" =>
                 SubSeq(buffer, Len(buffer) - 1023, Len(buffer))
                   = before.packet_.payload
  /\ op = "parse" =>
       \A p \in Prefixes :
         BeginsWith(p, 255) =>
           /\ Len(After(p)) > 1024 => ret = "PAYLOAD_TOO_LARGE"
           /\ Len(After(p)) = 1024 => ret = "OK" /\ packet.payload = After(p)

\* C6's case: a datagram with 1025 bytes after the marker has been parsed.
C6_Witness ==
  /\ op = "parse"
  /\ \E p \in Prefixes : BeginsWith(p, 255) /\ Len(After(p)) = 1025
  /\ ret = "PAYLOAD_TOO_LARGE"

\* C7: build and buildBuffer return INVALID_FORMAT when the code is EMPTY
\* and the builder holds a token, an option or a payload; parse returns
\* INVALID_FORMAT for a datagram whose code byte is 0 and that carries a
\* token, an option or a payload.
C7_EmptyMessage ==
  /\ (op \in BuildOps /\ before.packet_.code = 0
      /\ (before.packet_.token_length # 0 \/ before.packet_.options # << >>
          \/ before.packet_.payload # << >>)
      /\ Len(before.packet_.payload) <= 1024) =>
       ret = "INVALID_FORMAT"
  /\ (op = "parse" /\ ~TooShortForHeader /\ ~BadVersion /\ ~BadTokenLength
      /\ ~TooShortForToken /\ buffer[2] = 0
      /\ (buffer[1] % 16 > 0 \/ Len(buffer) > 4)) =>
       ret = "INVALID_FORMAT"

\* C8: after setToken with a length above 8, build and buildBuffer return
\* INVALID_TOKEN_LENGTH.
C8_TokenRejected ==
  (op \in BuildOps /\ tokenGiven > 8) => ret = "INVALID_TOKEN_LENGTH"

\* C9: after a successful build or buildBuffer the builder's options are in
\* non-decreasing order of number, and those with the same number are in the
\* order they were added.
C9_StableSort ==
  (op \in BuildOps /\ ret = "OK") =>
    /\ IsSortedByNumber(packet_.options)
    /\ \A n \in Numbers(added) :
         WithNumber(packet_.options, n) = WithNumber(added, n)

\* C10: a packet a successful build returns satisfies the data-model
\* invariants, and build and buildBuffer succeed on the same builder
\* states.
C10_BuildInvariants ==
  /\ (op = "build" /\ ret = "OK") =>
       /\ Valid(packet)
       /\ \A s \in sortOptions(before.packet_.options) :
            buildBuffer(before.packet_, s, buffer).ret = "OK"
  /\ (op = "buildBuffer" /\ ret = "OK") =>
       \A s \in sortOptions(before.packet_.options) :
         build(before.packet_, s, packet).ret = "OK"

\* C11: when parse returns an error, the caller's packet holds nothing read
\* from the rejected buffer: every field is as packet.clear() left it (no
\* type, token length, code, message id, token, option or payload of the
\* datagram).
C11_NoPartialMessage ==
  (op = "parse" /\ ret # "OK") => packet = clear

\* C12: when build or buildBuffer returns an error, the caller's packet and
\* the caller's buffer are as they were before the call.
C12_NoPartialOutput ==
  (op \in BuildOps /\ ret # "OK") =>
    /\ packet = before.packet
    /\ buffer = before.buffer

\* No two options of opts have the same number.
DistinctNumbers(opts) == Cardinality(Numbers(opts)) = Len(opts)

\* C13: when build or buildBuffer returns an error, the builder's type,
\* code, message id, token, payload and options, in their order, are as
\* they were before the call. Stated for builders whose options have
\* pairwise different numbers, where the order sortOptions leaves does not
\* depend on how std::sort treats ties.
C13_FailedBuildKeepsBuilder ==
  (op \in BuildOps /\ ret # "OK" /\ DistinctNumbers(before.packet_.options)) =>
    packet_ = before.packet_

\* The values the delta codec boundary law names.
Boundary == {0, 12, 13, 268, 269, 65804}

\* C14: for a delta and a length among 0, 12, 13, 268, 269 and 65804,
\* decoding what encodeOptionDeltaLength wrote succeeds and returns the
\* delta and the length, the bytes written are the header byte with the two
\* nibbles (v below 13, 13 below 269, else 14), the delta's extension bytes
\* (none, v - 13, or v - 269 big-endian) and then the length's, and decoding
\* consumes exactly these bytes.
C14_CodecBoundary ==
  (codec.step = "decoded" /\ codec.delta \in Boundary
   /\ codec.length \in Boundary) =>
    /\ codec.err = "OK"
    /\ codec.deltaOut = codec.delta
    /\ codec.lengthOut = codec.length
    /\ codec.bytes = << Nibble(codec.delta) * 16 + Nibble(codec.length) >>
                       \o Extension(codec.delta) \o Extension(codec.length)
    /\ codec.offset = Len(codec.bytes)

\* The latest call is buildBuffer on the builder of Example 1: a new
\* builder given type CON, code GET, message id 1234, token 0x12 0x34 and
\* setUriPath("/sensors/temp").
LiteralScenario ==
  /\ op = "buildBuffer"
  /\ \E path \in Paths : before.packet_ = example1(clear, path)

\* The URI_PATH options "sensors" and "temp" on the wire, the first at
\* delta 11 and the second at delta 0.
SensorsTemp ==
  << 183, 115, 101, 110, 115, 111, 114, 115 >> \o << 4, 116, 101, 109, 112 >>

TempSensors ==
  << 180, 116, 101, 109, 112 >> \o << 7, 115, 101, 110, 115, 111, 114, 115 >>

NibbleNineTwoBytes ==
  /\ op = "parse"
  /\ Len(buffer) = 6
  /\ ~BadVersion
  /\ ~BadCodeClass
  /\ buffer[1] % 16 = 9

\* C16, as the spec states it: a datagram with the token length nibble 9
\* and 2 bytes after the header makes parse return DATAGRAM_TOO_SHORT.
C16_Original == NibbleNineTwoBytes => ret = "DATAGRAM_TOO_SHORT"

\* C16, amended: a datagram with the token length nibble 9 and 2 bytes
\* after the header makes parse return INVALID_TOKEN_LENGTH, at the token
\* length check, before the token bytes are looked for.
C16_TokenNibbleNine ==
  NibbleNineTwoBytes => ret = "INVALID_TOKEN_LENGTH" /\ stage = "token_length"

\* C16's case: such a datagram has been parsed.
C16_Witness == NibbleNineTwoBytes /\ ret # "OK"

\* A packet that holds a token, an option and a payload.
UsedPacket ==
  [clear EXCEPT !.type = ACK, !.code = CONTENT_2_05, !.message_id = 7,
                !.token_length = 1, !.token = << 9 >> \o Zeros(7),
                !.options = << CoapOption(URI_PATH, << 120 >>) >>,
                !.payload = << 1, 2, 3 >>]

\* C17: what parse returns and leaves in the caller's packet depends on the
\* bytes alone: it is what parse returns and leaves for the same bytes when
\* the packet handed in is a new one, the builder's, or one that holds a
\* token, an option and a payload, whatever was built or parsed before.
C17_ParsePure ==
  op = "parse" =>
    \A q \in {clear, packet_, UsedPacket} :
      LET r == parse(buffer, Len(buffer), q)
      IN  r.ret = ret /\ r.packet = packet

\* C17's case: a datagram with a payload has been parsed into a packet that
\* held something else, an earlier parse's or a build's result.
C17_Witness ==
  /\ op = "parse"
  /\ ret = "OK"
  /\ before.packet # clear
  /\ before.packet # packet
  /\ packet.payload # << >>

\* C18: after reset the builder is as a newly constructed one: version 1,
\* type CON, code EMPTY, message id 0, token length 0, eight zero token
\* bytes, no options, no payload and getLastError() OK. Without reset, a
\* build or buildBuffer leaves the builder's fields and the options it
\* holds (sorted or not), and a setter after it leaves the options that
\* were there and puts the new ones after them.
C18_Reset ==
  /\ [](op = "reset" =>
          /\ packet_ = [version |-> 1, type |-> 0, code |-> 0,
                        message_id |-> 0, token_length |-> 0,
                        token |-> << 0, 0, 0, 0, 0, 0, 0, 0 >>,
                        options |-> << >>, payload |-> << >>]
          /\ lastError_ = "OK")
  /\ [][op' \in BuildOps =>
          /\ SameOptions(packet_'.options, packet_.options)
          /\ [packet_' EXCEPT !.options = << >>]
               = [packet_ EXCEPT !.options = << >>]]_vars
  /\ [][op' = "set" =>
          /\ Len(packet_'.options) >= Len(packet_.options)
          /\ Take(packet_'.options, Len(packet_.options)) = packet_.options
          /\ Drop(packet_'.options, Len(packet_.options))
               = Drop(added', Len(added))]_vars

\* C18's case: reset on a builder that held options and whose latest build
\* had failed.
C18_Witness ==
  /\ op = "reset"
  /\ ret # "OK"
  /\ before.packet_.options # << >>

\* C19: for every buffer and every length, parse reads only indices of the
\* buffer below the length and its offset never exceeds the length; every
\* iteration of the option loop begins at a higher offset than the one
\* before, and the offset parse ends with is higher still; and a buffer
\* that ends inside a one-byte or a two-byte extension or inside an option
\* value makes parse return DATAGRAM_TOO_SHORT.
C19_MemorySafety ==
  op = "parseBytes" =>
    /\ parsed.top <= parsed.length
    /\ parsed.offset <= parsed.length
    /\ \A i \in 1..Len(parsed.offsets) :
         /\ parsed.offsets[i] < parsed.length
         /\ i < Len(parsed.offsets) => parsed.offsets[i] < parsed.offsets[i + 1]
         /\ parsed.offsets[i] < parsed.offset
    /\ \A m \in MemoryDatagrams :
         (buffer = m.bytes /\ parsed.length \in m.cuts) =>
           ret = "DATAGRAM_TOO_SHORT"

\* C19's case: a buffer that ends after the first of two extension bytes
\* has been parsed.
C19_Witness ==
  /\ op = "parseBytes"
  /\ buffer = Hdr(64, GET) \o << 210, 1, 7, 8 >> \o << 225, 0, 0, 9 >>
                 \o << PAYLOAD_MARKER, 1 >>
  /\ parsed.length = 10
  /\ parsed.top = 9
  /\ ret = "DATAGRAM_TOO_SHORT"

\* The sum of the first n elements of a sequence of numbers.
RECURSIVE SumOf(_, _)
SumOf(deltas, n) == IF n = 0 THEN 0 ELSE SumOf(deltas, n - 1) + deltas[n]

\* C20: in the packet a successful parse returns, the number of the i-th
\* option is the sum of the deltas the first i option headers encode, so
\* that the numbers never decrease.
C20_OptionNumbers ==
  (op = "parse" /\ ret = "OK") =>
    \A m \in NumberDatagrams :
      buffer = m.bytes =>
        /\ Len(packet.options) = Len(m.deltas)
        /\ \A i \in 1..Len(m.deltas) :
             packet.options[i].number = SumOf(m.deltas, i)
        /\ IsSortedByNumber(packet.options)

====
